---- MODULE Spec2Model ----
(***************************************************************************)
(* Model of storage/bbolt/dedup.go: the BBolt-backed deduplication store   *)
(* of the static-ct log.  The store file holds two buckets, "leafIdx"      *)
(* (leafID -> idx::timestamp, 16 bytes) and "logSize" ("size" -> 8 bytes). *)
(* Every BBolt transaction (db.Update, db.View) is one atomic step: BBolt  *)
(* serialises write transactions and gives readers a snapshot.             *)
(***************************************************************************)
EXTENDS Integers, Sequences, FiniteSets, TLC

(***************************************************************************)
(* Bounds of the model.                                                    *)
(***************************************************************************)
\* Indices passed to Add range over 0..MaxIdx.
MaxIdx == 2
\* An Add call carries at most MaxBatch records.
MaxBatch == 2

\* Leaf identifiers (certificate hashes), timestamps and concurrent callers.
LeafIDs == {"a", "b"}
Timestamps == {0, 7}
Callers == {"server", "sync"}

Indices == 0..MaxIdx
\* dedup.LeafDedupInfo values that Add may be handed.
LeafDedupInfos == [LeafID : LeafIDs, Idx : Indices, Timestamp : Timestamps]

(***************************************************************************)
(* Names and encodings.                                                    *)
(***************************************************************************)
dedupBucket == "leafIdx"
sizeBucket == "logSize"
sizeKey == "size"

\* Go's nil []byte.  Values written by the store are 8 or 16 bytes long, so
\* the empty sequence stands for nil (len(nil) = 0).
Nil == << >>
\* Go's nil error, and the errors the package returns.
NoErr == "nil"
ErrOpen == "bolt.Open()"
ErrInit == "error initializing buckets"
ErrInconsistent == "error initializing buckets: inconsistent deduplication storage state"
ErrNoSize == "can't find log size in bucket"
ErrAdd == "db.Update(): error writing leaf index"
ErrDecode == "btov()"

\* binary.BigEndian.AppendUint64: the 8 bytes of n, most significant first.
AppendUint64(n) ==
    LET q1 == n \div 256
        q2 == q1 \div 256
        q3 == q2 \div 256
        q4 == q3 \div 256
        q5 == q4 \div 256
        q6 == q5 \div 256
        q7 == q6 \div 256
    IN  << q7 % 256, q6 % 256, q5 % 256, q4 % 256,
           q3 % 256, q2 % 256, q1 % 256, n % 256 >>

\* binary.BigEndian.Uint64: the number held by the first 8 bytes of b.
Uint64(b) ==
    ((((((b[1] * 256 + b[2]) * 256 + b[3]) * 256 + b[4]) * 256
        + b[5]) * 256 + b[6]) * 256 + b[7]) * 256 + b[8]

\* itob returns an 8-byte big endian representation of idx.
itob(idx) == AppendUint64(idx)

\* btoi converts a byte array to a uint64.
btoi(b) == Uint64(b)

\* vtob concatenates an index and timestamp values into a byte array.
vtob(idx, timestamp) == AppendUint64(idx) \o AppendUint64(timestamp)

\* Mutant of btov: no length check; a short value is padded with zero bytes
\* and a long one truncated.
btov_anyLength(b) ==
    LET c == SubSeq(b \o [i \in 1..16 |-> 0], 1, 16)
    IN  [idx |-> Uint64(SubSeq(c, 1, 8)),
         timestamp |-> Uint64(SubSeq(c, 9, 16)),
         err |-> NoErr]

\* btov parses a byte array into an index and timestamp values.
btov(b) ==
    IF Len(b) # 16
    THEN [idx |-> 0, timestamp |-> 0, err |-> ErrDecode]
    ELSE [idx |-> Uint64(SubSeq(b, 1, 8)),
          timestamp |-> Uint64(SubSeq(b, 9, 16)),
          err |-> NoErr]

(***************************************************************************)
(* The BBolt file: a function from the names of the buckets that exist to  *)
(* the buckets, each a function from the keys present to their values.     *)
(***************************************************************************)
NoBuckets == [n \in {} |-> << >>]
EmptyBucket == [k \in {} |-> << >>]

HasBucket(d, name) == name \in DOMAIN d

\* Bucket.Get: nil when the key is absent.
BucketGet(b, key) == IF key \in DOMAIN b THEN b[key] ELSE Nil

\* Bucket.Put: insert or overwrite.
BucketPut(b, key, value) ==
    [k \in DOMAIN b \cup {key} |-> IF k = key THEN value ELSE b[k]]

\* Tx.CreateBucket.
CreateBucket(d, name) ==
    [n \in DOMAIN d \cup {name} |-> IF n = name THEN EmptyBucket ELSE d[n]]

\* Exactly one of the two buckets exists.
OneBucket(d) == HasBucket(d, dedupBucket) # HasBucket(d, sizeBucket)
BothBuckets(d) == HasBucket(d, dedupBucket) /\ HasBucket(d, sizeBucket)

(***************************************************************************)
(* The bodies of the transactions.  Each returns the file as the function  *)
(* leaves it and the error it returns; BBolt commits the file only when    *)
(* the error is nil.                                                       *)
(***************************************************************************)
\* Mutant of NewStorageFn: an existing store has its size reset to 0.
NewStorageFn_reset(d) ==
    LET dedupB == HasBucket(d, dedupBucket)
        sizeB == HasBucket(d, sizeBucket)
    IN  IF ~dedupB /\ ~sizeB
        THEN [db |-> [CreateBucket(CreateBucket(d, dedupBucket), sizeBucket)
                         EXCEPT ![sizeBucket] = BucketPut(@, sizeKey, itob(0))],
              err |-> NoErr]
        ELSE IF dedupB # sizeB
        THEN [db |-> d, err |-> ErrInconsistent]
        ELSE [db |-> [d EXCEPT ![sizeBucket] = BucketPut(@, sizeKey, itob(0))],
              err |-> NoErr]

\* Mutant of NewStorageFn: a missing bucket is created next to the existing one.
NewStorageFn_repair(d) ==
    LET d1 == IF HasBucket(d, dedupBucket) THEN d ELSE CreateBucket(d, dedupBucket)
    IN  IF HasBucket(d, sizeBucket)
        THEN [db |-> d1, err |-> NoErr]
        ELSE [db |-> [CreateBucket(d1, sizeBucket)
                         EXCEPT ![sizeBucket] = BucketPut(@, sizeKey, itob(0))],
              err |-> NoErr]

\* NewStorage: the function passed to db.Update.
NewStorageFn(d) ==
    LET dedupB == HasBucket(d, dedupBucket)
        sizeB == HasBucket(d, sizeBucket)
    IN  IF ~dedupB /\ ~sizeB
        THEN LET d1 == CreateBucket(d, dedupBucket)
                 d2 == CreateBucket(d1, sizeBucket)
             IN  [db |-> [d2 EXCEPT ![sizeBucket] = BucketPut(@, sizeKey, itob(0))],
                  err |-> NoErr]
        ELSE IF ~dedupB /\ sizeB
        THEN [db |-> d, err |-> ErrInconsistent]
        ELSE IF dedupB /\ ~sizeB
        THEN [db |-> d, err |-> ErrInconsistent]
        ELSE [db |-> d, err |-> NoErr]

\* Mutant of KeepsOld: an equal index overwrites the stored value.
KeepsOld_strict(old, idx) == Len(old) = 16 /\ btoi(SubSeq(old, 1, 8)) < idx

\* Mutant of KeepsOld: the last committed record always wins.
KeepsOld_never(old, idx) == FALSE

\* Add: the stored value wins over a record with index idx.
KeepsOld(old, idx) == Len(old) = 16 /\ btoi(SubSeq(old, 1, 8)) <= idx

\* Mutant of IsNewEntry: any index at or beyond size advances the size.
IsNewEntry_atLeast(size, idx) == size <= idx

\* Mutant of IsNewEntry: the comparison is off by one.
IsNewEntry_offByOne(size, idx) == size = idx + 1

\* Add: the record with index idx is the next one after size.
IsNewEntry(size, idx) == size = idx

\* Mutant of AddFn: a missing size value is taken to be 0.
AddFn_sizeDefaultsToZero(d, ldi) ==
    LET sizeB == BucketGet(d[sizeBucket], sizeKey)
        size == IF sizeB = Nil THEN 0 ELSE btoi(sizeB)
        d1 == IF KeepsOld(BucketGet(d[dedupBucket], ldi.LeafID), ldi.Idx)
              THEN d
              ELSE [d EXCEPT ![dedupBucket] =
                       BucketPut(@, ldi.LeafID, vtob(ldi.Idx, ldi.Timestamp))]
    IN  IF IsNewEntry(size, ldi.Idx)
        THEN [db |-> [d1 EXCEPT ![sizeBucket] = BucketPut(@, sizeKey, itob(size + 1))],
              err |-> NoErr]
        ELSE [db |-> d1, err |-> NoErr]

\* Mutant of AddFn: the size advances only when the record was written.
AddFn_advanceOnWrite(d, ldi) ==
    LET sizeB == BucketGet(d[sizeBucket], sizeKey)
        size == btoi(sizeB)
        old == BucketGet(d[dedupBucket], ldi.LeafID)
        d1 == [d EXCEPT ![dedupBucket] =
                  BucketPut(@, ldi.LeafID, vtob(ldi.Idx, ldi.Timestamp))]
    IN  IF sizeB = Nil
        THEN [db |-> d, err |-> ErrNoSize]
        ELSE IF KeepsOld(old, ldi.Idx)
        THEN [db |-> d, err |-> NoErr]
        ELSE IF IsNewEntry(size, ldi.Idx)
        THEN [db |-> [d1 EXCEPT ![sizeBucket] = BucketPut(@, sizeKey, itob(size + 1))],
              err |-> NoErr]
        ELSE [db |-> d1, err |-> NoErr]

\* Add: the function passed to db.Update for the record ldi.
AddFn(d, ldi) ==
    LET db == d[dedupBucket]
        sb == d[sizeBucket]
        sizeB == BucketGet(sb, sizeKey)
    IN  IF sizeB = Nil
        THEN [db |-> d, err |-> ErrNoSize]
        ELSE LET size == btoi(sizeB)
                 vB == vtob(ldi.Idx, ldi.Timestamp)
                 old == BucketGet(db, ldi.LeafID)
                 d1 == IF KeepsOld(old, ldi.Idx)
                       THEN d
                       ELSE [d EXCEPT ![dedupBucket] = BucketPut(@, ldi.LeafID, vB)]
                 d2 == IF IsNewEntry(size, ldi.Idx)
                       THEN [d1 EXCEPT ![sizeBucket] = BucketPut(@, sizeKey, itob(size + 1))]
                       ELSE d1
             IN  [db |-> d2, err |-> NoErr]

\* What an operation returns: one shape for all of them, unused fields zero.
Ret(op, leafID, idx, timestamp, found, size, err) ==
    [op |-> op, leafID |-> leafID, Idx |-> idx, Timestamp |-> timestamp,
     found |-> found, size |-> size, err |-> err]
NoRet == Ret("none", "", 0, 0, FALSE, 0, NoErr)

\* Mutant of GetResult: the value read is decoded without the nil check.
GetResult_noNilCheck(d, leafID) ==
    LET r == btov(BucketGet(d[dedupBucket], leafID))
    IN  IF r.err # NoErr
        THEN Ret("Get", leafID, 0, 0, FALSE, 0, ErrDecode)
        ELSE Ret("Get", leafID, r.idx, r.timestamp, TRUE, 0, NoErr)

\* Get: the read transaction and the decoding of what it found.
GetResult(d, leafID) ==
    LET v == BucketGet(d[dedupBucket], leafID)
    IN  IF v = Nil
        THEN Ret("Get", leafID, 0, 0, FALSE, 0, NoErr)
        ELSE LET r == btov(v)
             IN  IF r.err # NoErr
                 THEN Ret("Get", leafID, 0, 0, FALSE, 0, ErrDecode)
                 ELSE Ret("Get", leafID, r.idx, r.timestamp, TRUE, 0, NoErr)

\* LogSize: the read transaction and the decoding of the size.
LogSizeResult(d) ==
    LET v == BucketGet(d[sizeBucket], sizeKey)
        size == IF v # Nil THEN SubSeq(v, 1, 8) ELSE Nil
    IN  IF size = Nil
        THEN Ret("LogSize", "", 0, 0, FALSE, 0, ErrNoSize)
        ELSE Ret("LogSize", "", 0, 0, FALSE, btoi(size), NoErr)

(***************************************************************************)
(* State.                                                                  *)
(***************************************************************************)
VARIABLES
    store,      \* the committed content of the BBolt file at the store's path
    handle,     \* "Unopened", "Ready" (NewStorage returned a Storage) or "FailedInit"
    pc,         \* per caller: "idle" or "adding" (inside the loop of an Add call)
    left,       \* per caller: records of its Add call not yet applied
    out,        \* what the operation that ended in this step returned, else NoRet
    created,    \* history: NewStorage created the buckets of this store
    least,      \* history: per leafID, the smallest index among its committed Add
                \* records with the timestamp of the first record that carried
                \* that index, or NoRec
    added,      \* history: the indices carried by committed Add records
    hist,       \* history: the indices of the first three committed Add records
                \* in commit order, Overflow once there are more
    inOrder,    \* history: the number n of committed Add records while the k-th
                \* of them carried index k-1 for every k <= n, else OutOfOrder
    ldis,       \* per caller: the records of its Add call still to apply, when
                \* the call is modelled with its batch given (SpecBatch)
    given,      \* history: per caller, the same records as handed to the call
    serial,     \* history: the file that single-record Add calls, one per
                \* committed record and in commit order, would have left
    sync,       \* the synchroniser: its position and the next index it adds
    codec       \* the value codec applied to a pair of 64-bit values (SpecCodec)

\* The variables the operations of Spec leave alone.
others == <<ldis, given, serial, sync, codec>>

vars == <<store, handle, pc, left, out, created, least, added, hist, inOrder,
          ldis, given, serial, sync, codec>>

NoRec == [Idx |-> -1, Timestamp |-> -1]
\* Marks a history of more than three commits.
Overflow == << -1 >>
OutOfOrder == NoRec.Idx

\* Files a path may hold before the first NewStorage: no bucket at all, or a
\* damaged file with only one of the two buckets.
InitStores ==
    { NoBuckets,
      CreateBucket(NoBuckets, dedupBucket),
      [n \in {sizeBucket} |-> BucketPut(EmptyBucket, sizeKey, itob(0))] }

Init ==
    /\ store \in InitStores
    /\ handle = "Unopened"
    /\ pc = [p \in Callers |-> "idle"]
    /\ left = [p \in Callers |-> 0]
    /\ out = NoRet
    /\ created = FALSE
    /\ least = [l \in LeafIDs |-> NoRec]
    /\ added = {}
    /\ hist = << >>
    /\ inOrder = 0
    /\ ldis = [p \in Callers |-> << >>]
    /\ given = [p \in Callers |-> << >>]
    /\ serial = NoBuckets
    /\ sync = [pc |-> "off", next |-> 0]
    /\ codec = [pc |-> "off"]

(***************************************************************************)
(* Operations.                                                             *)
(***************************************************************************)
\* Failures of the underlying store that NewStorage can meet.
OpenFaults == {"none", "open", "commit"}

\* NewStorage(path): bolt.Open, then one write transaction.
NewStorage(fault) ==
    /\ handle = "Unopened"
    /\ LET r == NewStorageFn(store)
       IN  IF fault = "open"
           THEN /\ out' = Ret("NewStorage", "", 0, 0, FALSE, 0, ErrOpen)
                /\ UNCHANGED <<store, handle, created>>
           ELSE IF r.err # NoErr
           THEN /\ fault = "none"
                /\ out' = Ret("NewStorage", "", 0, 0, FALSE, 0, r.err)
                /\ handle' = "FailedInit"
                /\ UNCHANGED <<store, created>>
           ELSE IF fault = "commit"
           THEN /\ out' = Ret("NewStorage", "", 0, 0, FALSE, 0, ErrInit)
                /\ handle' = "FailedInit"
                /\ UNCHANGED <<store, created>>
           ELSE /\ out' = Ret("NewStorage", "", 0, 0, FALSE, 0, NoErr)
                /\ handle' = "Ready"
                /\ store' = r.db
                /\ created' = (created \/ ~BothBuckets(store))
    /\ UNCHANGED <<pc, left, least, added, hist, inOrder>>
    /\ UNCHANGED others

\* The process ends (shutdown or crash): the handle and the calls in flight
\* are gone, the committed file stays.
Exit ==
    /\ handle # "Unopened"
    /\ handle' = "Unopened"
    /\ pc' = [p \in Callers |-> "idle"]
    /\ left' = [p \in Callers |-> 0]
    /\ out' = NoRet
    /\ UNCHANGED <<store, created, least, added, hist, inOrder>>
    /\ UNCHANGED others

\* Add(ctx, ldis) is called with n = len(ldis) records.
Add(p, n) ==
    /\ handle = "Ready"
    /\ pc[p] = "idle"
    /\ IF n = 0
       THEN /\ out' = Ret("Add", "", 0, 0, FALSE, 0, NoErr)
            /\ UNCHANGED <<pc, left>>
       ELSE /\ out' = NoRet
            /\ pc' = [pc EXCEPT ![p] = "adding"]
            /\ left' = [left EXCEPT ![p] = n]
    /\ UNCHANGED <<store, handle, created, least, added, hist, inOrder>>
    /\ UNCHANGED others

\* Mutant of AddUpdate: the record is put outside the transaction, so that a
\* failed transaction leaves the put in the file without the size advance.
AddUpdate_partial(p, ldi, fault) ==
    /\ handle = "Ready"
    /\ pc[p] = "adding"
    /\ LET r == AddFn(store, ldi)
       IN  IF fault \/ r.err # NoErr
           THEN /\ out' = Ret("Add", "", ldi.Idx, 0, FALSE, 0, ErrAdd)
                /\ pc' = [pc EXCEPT ![p] = "idle"]
                /\ left' = [left EXCEPT ![p] = 0]
                /\ store' = [store EXCEPT ![dedupBucket] =
                                BucketPut(@, ldi.LeafID, vtob(ldi.Idx, ldi.Timestamp))]
                /\ UNCHANGED <<least, added, hist, inOrder>>
           ELSE /\ store' = r.db
                /\ least' =
                     [least EXCEPT ![ldi.LeafID] =
                         IF @ = NoRec \/ ldi.Idx < @.Idx
                         THEN [Idx |-> ldi.Idx, Timestamp |-> ldi.Timestamp]
                         ELSE @]
                /\ added' = added \cup {ldi.Idx}
                /\ hist' = IF hist # Overflow /\ Len(hist) < 3
                           THEN Append(hist, ldi.Idx)
                           ELSE Overflow
                /\ inOrder' = IF ldi.Idx = inOrder THEN inOrder + 1 ELSE OutOfOrder
                /\ left' = [left EXCEPT ![p] = @ - 1]
                /\ IF left[p] = 1
                   THEN /\ pc' = [pc EXCEPT ![p] = "idle"]
                        /\ out' = Ret("Add", "", 0, 0, FALSE, 0, NoErr)
                   ELSE /\ out' = NoRet
                        /\ UNCHANGED pc
    /\ UNCHANGED <<handle, created>>
    /\ UNCHANGED others

\* One iteration of Add's loop: the transaction of the next record, ldi.
\* fault: the transaction fails in the store (Put or commit) and is rolled back.
AddUpdate(p, ldi, fault) ==
    /\ handle = "Ready"
    /\ pc[p] = "adding"
    /\ LET r == AddFn(store, ldi)
       IN  IF fault \/ r.err # NoErr
           THEN /\ out' = Ret("Add", "", ldi.Idx, 0, FALSE, 0, ErrAdd)
                /\ pc' = [pc EXCEPT ![p] = "idle"]
                /\ left' = [left EXCEPT ![p] = 0]
                /\ UNCHANGED <<store, least, added, hist, inOrder>>
           ELSE /\ store' = r.db
                /\ least' =
                     [least EXCEPT ![ldi.LeafID] =
                         IF @ = NoRec \/ ldi.Idx < @.Idx
                         THEN [Idx |-> ldi.Idx, Timestamp |-> ldi.Timestamp]
                         ELSE @]
                /\ added' = added \cup {ldi.Idx}
                /\ hist' = IF hist # Overflow /\ Len(hist) < 3
                           THEN Append(hist, ldi.Idx)
                           ELSE Overflow
                /\ inOrder' = IF ldi.Idx = inOrder THEN inOrder + 1 ELSE OutOfOrder
                /\ left' = [left EXCEPT ![p] = @ - 1]
                /\ IF left[p] = 1
                   THEN /\ pc' = [pc EXCEPT ![p] = "idle"]
                        /\ out' = Ret("Add", "", 0, 0, FALSE, 0, NoErr)
                   ELSE /\ out' = NoRet
                        /\ UNCHANGED pc
    /\ UNCHANGED <<handle, created>>
    /\ UNCHANGED others

\* Get(ctx, leafID).
Get(leafID) ==
    /\ handle = "Ready"
    /\ out' = GetResult(store, leafID)
    /\ UNCHANGED <<store, handle, pc, left, created, least, added, hist, inOrder>>
    /\ UNCHANGED others

\* LogSize().
LogSize ==
    /\ handle = "Ready"
    /\ out' = LogSizeResult(store)
    /\ UNCHANGED <<store, handle, pc, left, created, least, added, hist, inOrder>>
    /\ UNCHANGED others

Next ==
    \/ \E fault \in OpenFaults : NewStorage(fault)
    \/ Exit
    \/ \E p \in Callers, n \in 0..MaxBatch : Add(p, n)
    \/ \E p \in Callers, ldi \in LeafDedupInfos, fault \in BOOLEAN : AddUpdate(p, ldi, fault)
    \/ \E leafID \in LeafIDs : Get(leafID)
    \/ LogSize

Spec == Init /\ [][Next]_vars

TypeOK ==
    /\ handle \in {"Unopened", "Ready", "FailedInit"}
    /\ pc \in [Callers -> {"idle", "adding"}]
    /\ left \in [Callers -> 0..MaxBatch]
    /\ created \in BOOLEAN
    /\ least \in [LeafIDs -> [Idx : Indices, Timestamp : Timestamps] \cup {NoRec}]
    /\ added \subseteq Indices

(***************************************************************************)
(* Properties.                                                             *)
(***************************************************************************)
\* The size counter held by the file d.
SizeOf(d) == btoi(d[sizeBucket][sizeKey])

\* The largest n such that every index below n is in the set S.
RECURSIVE Contiguous(_, _)
Contiguous(S, n) == IF n \in S THEN Contiguous(S, n + 1) ELSE n

Min(a, b) == IF a <= b THEN a ELSE b

\* C1: for every leafID with committed Add records, Get returns found = true,
\* the smallest index among them and the timestamp of the first committed
\* record that carried that index, whatever the order of the records and the
\* records of other leafIDs in between.
C1_GetReturnsLeast ==
    /\ \A l \in LeafIDs :
         least[l] # NoRec =>
            /\ BothBuckets(store)
            /\ GetResult(store, l) =
                 Ret("Get", l, least[l].Idx, least[l].Timestamp, TRUE, 0, NoErr)
    /\ (out.op = "Get" /\ least[out.leafID] # NoRec) =>
          out = Ret("Get", out.leafID, least[out.leafID].Idx,
                    least[out.leafID].Timestamp, TRUE, 0, NoErr)

\* C1 witness: leaf "a" got index 1 and later index 0, leaf "b" index 2 in
\* between, and Get("a") has returned index 0.
C1_Witness ==
    /\ hist = <<1, 2, 0>>
    /\ least["b"].Idx = 2
    /\ out.op = "Get" /\ out.leafID = "a" /\ out.found /\ out.Idx = 0

\* C2: in a store created by NewStorage, every index below the size counter
\* has been carried by a committed Add record.
C2_BelowSizeAdded ==
    (created /\ BothBuckets(store)) =>
        \A k \in 0..(SizeOf(store) - 1) : k \in added

\* C2 witness: the counter has reached 2 while index 2 was added as well.
C2_Witness == created /\ SizeOf(store) = 2 /\ added = {0, 1, 2}

\* C3 (as claimed): the size counter is the largest N such that every index
\* below N has been carried by a committed Add record.
C3_SizeIsLargestContiguous ==
    (created /\ BothBuckets(store)) => SizeOf(store) = Contiguous(added, 0)

\* C4 (as claimed): on a fresh store, after Add of index 0 and then 2 LogSize
\* returns 1, and after a further Add of index 1 it returns 3.
C4_GapThenFill ==
    /\ (created /\ hist = <<0, 2>>) =>
          LogSizeResult(store) = Ret("LogSize", "", 0, 0, FALSE, 1, NoErr)
    /\ (created /\ hist = <<0, 2, 1>>) =>
          LogSizeResult(store) = Ret("LogSize", "", 0, 0, FALSE, 3, NoErr)

\* C5: the size counter never decreases, a step changes it by +1 or not at
\* all, and only the committed transaction of an Add record whose Idx equals
\* the counter changes it; Get, LogSize and reopening leave it alone.
C5_SizeStepsByOne ==
    [][ HasBucket(store, sizeBucket) =>
          /\ HasBucket(store', sizeBucket)
          /\ \/ SizeOf(store') = SizeOf(store)
             \/ /\ SizeOf(store') = SizeOf(store) + 1
                /\ \E p \in Callers, ldi \in LeafDedupInfos :
                      AddUpdate(p, ldi, FALSE) /\ ldi.Idx = SizeOf(store)
          /\ out'.op \in {"Get", "LogSize", "NewStorage"} =>
                SizeOf(store') = SizeOf(store) ]_vars

\* C5 witness: the store was reopened with its counter at 2.
C5_Witness ==
    /\ out.op = "NewStorage" /\ out.err = NoErr
    /\ handle = "Ready" /\ SizeOf(store) = 2

\* C6: when a record for a leafID commits while another caller is inside
\* Add, the stored record of that leafID becomes the smaller of the stored
\* and the new index with the timestamp paired with it, so that records for
\* one leafID from concurrent callers end at the smallest index in either
\* commit order.  (The step is recognised by AddUpdate; the conjuncts before
\* it are implied by it and only spare its evaluation on other steps.)
C6_ConcurrentAddKeepsSmallest ==
    [][ \A p \in Callers :
          (left'[p] = left[p] - 1 /\ \E q \in Callers \ {p} : pc[q] = "adding") =>
             \A ldi \in LeafDedupInfos :
                (/\ added' = added \cup {ldi.Idx}
                 /\ least'[ldi.LeafID].Idx <= ldi.Idx
                 /\ AddUpdate(p, ldi, FALSE)) =>
                   LET before == GetResult(store, ldi.LeafID)
                   IN  GetResult(store', ldi.LeafID) =
                          IF before.found /\ before.Idx <= ldi.Idx
                          THEN before
                          ELSE Ret("Get", ldi.LeafID, ldi.Idx, ldi.Timestamp,
                                   TRUE, 0, NoErr) ]_vars

\* C6 witness: both callers are inside Add, leaf "a" got index 1 and then
\* the larger index 2, and the stored index is 1.
C6_Witness ==
    /\ \A p \in Callers : pc[p] = "adding"
    /\ hist = <<1, 2>>
    /\ least["b"] = NoRec
    /\ GetResult(store, "a").Idx = 1

\* C7: LogSize on a store just created returns 0, and after Add records
\* with indices 0, 1, ..., n-1 committed in that order it returns n.
C7_LogSizeCountsInOrder ==
    /\ (created /\ inOrder # OutOfOrder) =>
          LogSizeResult(store) = Ret("LogSize", "", 0, 0, FALSE, inOrder, NoErr)
    /\ (out.op = "LogSize" /\ created /\ inOrder # OutOfOrder) =>
          (out.size = inOrder /\ out.err = NoErr)

\* C7 witness: indices 0, 1, 2 were committed in that order, all for leaf
\* "a", and LogSize has returned 3.
C7_Witness ==
    /\ hist = <<0, 1, 2>> /\ inOrder = 3
    /\ least["b"] = NoRec
    /\ out.op = "LogSize" /\ out.size = 3

\* C8: for a leafID no committed Add record has carried, Get returns the
\* zero record, found = false and a nil error.
C8_GetAbsent ==
    /\ \A l \in LeafIDs :
         (BothBuckets(store) /\ least[l] = NoRec) =>
            GetResult(store, l) = Ret("Get", l, 0, 0, FALSE, 0, NoErr)
    /\ (out.op = "Get" /\ least[out.leafID] = NoRec) =>
          out = Ret("Get", out.leafID, 0, 0, FALSE, 0, NoErr)

\* C8 witness: Get("b") has returned not found after records for leaf "a".
C8_Witness ==
    /\ least["a"] # NoRec /\ least["b"] = NoRec
    /\ out.op = "Get" /\ out.leafID = "b" /\ ~out.found

\* C9: NewStorage on a store that holds both buckets changes nothing in the
\* file (records and size counter stay as committed, the counter is not
\* reset) and, unless the underlying store fails, returns a handle.
C9_ReopenPreserves ==
    [][ \A fault \in OpenFaults :
          (NewStorage(fault) /\ BothBuckets(store)) =>
             /\ store' = store
             /\ LogSizeResult(store') = LogSizeResult(store)
             /\ \A l \in LeafIDs : GetResult(store', l) = GetResult(store, l)
             /\ fault = "none" => (handle' = "Ready" /\ out'.err = NoErr) ]_vars

\* C9 witness: a store with a record and a counter of 1 was opened again.
C9_Witness ==
    /\ out.op = "NewStorage" /\ out.err = NoErr
    /\ least["a"] # NoRec /\ SizeOf(store) = 1

\* C10: NewStorage on a store with exactly one of the two buckets returns
\* the inconsistent-state error and no handle and leaves the file as it is;
\* and no NewStorage leaves a file with exactly one bucket that did not have
\* exactly one before.
C10_OneBucketFailsOpen ==
    [][ \A fault \in OpenFaults :
          NewStorage(fault) =>
             /\ OneBucket(store) =>
                   /\ store' = store
                   /\ handle' # "Ready"
                   /\ out'.err # NoErr
                   /\ fault # "open" => out'.err = ErrInconsistent
             /\ ~OneBucket(store) => ~OneBucket(store') ]_vars

\* C10 witness: NewStorage has failed on a file with one bucket.
C10_Witness ==
    /\ OneBucket(store)
    /\ out.op = "NewStorage" /\ out.err = ErrInconsistent
    /\ handle = "FailedInit"

\* The stored record the tie-break leaves for ldi's leafID when the record
\* ldi commits on the file d.
Winner(d, ldi) ==
    LET before == GetResult(d, ldi.LeafID)
    IN  IF before.found /\ before.Idx <= ldi.Idx
        THEN before
        ELSE Ret("Get", ldi.LeafID, ldi.Idx, ldi.Timestamp, TRUE, 0, NoErr)

\* C15: a committed Add record whose Idx equals the size counter advances
\* the counter by one, also when it loses the tie-break and leaves the dedup
\* bucket as it was.
C15_FrontierAlwaysAdvances ==
    [][ \A p \in Callers :
          left'[p] = left[p] - 1 =>
             \A ldi \in LeafDedupInfos :
                (/\ added' = added \cup {ldi.Idx}
                 /\ ldi.Idx = SizeOf(store)
                 /\ AddUpdate(p, ldi, FALSE)) =>
                   /\ SizeOf(store') = SizeOf(store) + 1
                   /\ Winner(store, ldi) = GetResult(store, ldi.LeafID) =>
                         store'[dedupBucket] = store[dedupBucket] ]_vars

\* C15 witness: leaf "a" got index 0 and then index 1, which lost the
\* tie-break, and the counter is 2.
C15_Witness ==
    /\ hist = <<0, 1>>
    /\ least["b"] = NoRec /\ GetResult(store, "a").Idx = 0
    /\ SizeOf(store) = 2

\* C17: the stored value of a leafID changes only in the commit of an Add
\* record for that leafID that finds no record or carries a strictly smaller
\* index; every other step (an Add with an equal or larger index, whatever
\* its timestamp, an Add for another leafID, Get, LogSize, NewStorage) leaves
\* it as it was, and no step removes it.
C17_RecordChangesOnlyToSmaller ==
    [][ BothBuckets(store) =>
          \A l \in LeafIDs :
             /\ l \in DOMAIN store[dedupBucket] => l \in DOMAIN store'[dedupBucket]
             /\ BucketGet(store'[dedupBucket], l) # BucketGet(store[dedupBucket], l) =>
                   LET before == GetResult(store, l)
                       after == GetResult(store', l)
                   IN  /\ after.found
                       /\ ~before.found \/ after.Idx < before.Idx
                       /\ \E p \in Callers :
                             AddUpdate(p, [LeafID |-> l, Idx |-> after.Idx,
                                           Timestamp |-> after.Timestamp], FALSE) ]_vars

\* C17 witness: leaf "a" got index 2, then 1, then 1 again, and holds 1.
C17_Witness ==
    /\ hist = <<2, 1, 1>>
    /\ least["b"] = NoRec /\ GetResult(store, "a").Idx = 1

\* The file e shows both effects of the record ldi committed on the file d:
\* the tie-break on its leafID and the advance of the counter.
BothEffects(d, e, ldi) ==
    /\ BothBuckets(e)
    /\ SizeOf(e) = IF ldi.Idx = SizeOf(d) THEN SizeOf(d) + 1 ELSE SizeOf(d)
    /\ GetResult(e, ldi.LeafID) = Winner(d, ldi)
    /\ \A l \in LeafIDs \ {ldi.LeafID} : GetResult(e, l) = GetResult(d, l)

\* C18: every step leaves the file either as it was or with both effects of
\* one Add record, the dedup write and the counter advance; an Add that
\* returns an error, the end of the process and a reopening leave the file
\* as the last committed transaction left it.
C18_RecordIsAtomic ==
    [][ BothBuckets(store) =>
          /\ \/ store' = store
             \/ \E ldi \in LeafDedupInfos : BothEffects(store, store', ldi)
          /\ ( \/ (out'.op = "Add" /\ out'.err # NoErr)
               \/ out'.op = "NewStorage"
               \/ handle' = "Unopened" ) => store' = store ]_vars

\* C18 witness: after index 0 was committed, the transaction of a record
\* with index 1, the counter's value, failed: the counter is still 1 and the
\* record is not stored.
C18_Witness ==
    /\ hist = <<0>> /\ least["b"] = NoRec
    /\ out.op = "Add" /\ out.err = ErrAdd /\ out.Idx = 1
    /\ SizeOf(store) = 1 /\ GetResult(store, "a").Idx = 0

(***************************************************************************)
(* Read transactions that fail.  db.View returns an error when the read    *)
(* transaction cannot be begun or ended; the closure's result is then not  *)
(* to be relied on.                                                        *)
(***************************************************************************)
ErrRead == "error reading from"

\* Get(ctx, leafID) when db.View returns an error: the error is assigned to
\* the blank identifier, v is still nil and Get goes on as for an absent key.
GetViewErr(leafID) ==
    /\ handle = "Ready"
    /\ out' = Ret("Get", leafID, 0, 0, FALSE, 0, NoErr)
    /\ UNCHANGED <<store, handle, pc, left, created, least, added, hist, inOrder>>
    /\ UNCHANGED others

\* LogSize() when db.View returns an error.
LogSizeViewErr ==
    /\ handle = "Ready"
    /\ out' = Ret("LogSize", "", 0, 0, FALSE, 0, ErrRead)
    /\ UNCHANGED <<store, handle, pc, left, created, least, added, hist, inOrder>>
    /\ UNCHANGED others

NextViewErr ==
    \/ \E leafID \in LeafIDs : GetViewErr(leafID)
    \/ LogSizeViewErr
    \/ Next

SpecViewErr == Init /\ [][NextViewErr]_vars

\* C12 (as claimed): every failure of the store's transaction inside Add,
\* Get or LogSize comes back to the caller as a non-nil error; when the read
\* transaction of Get fails, Get returns an error, not found = false with a
\* nil error.
C12_NoErrorSwallowed ==
    [][ /\ \A p \in Callers, ldi \in LeafDedupInfos :
             (pc[p] = "adding" /\ pc'[p] = "idle" /\ AddUpdate(p, ldi, TRUE)) =>
                out'.err # NoErr
        /\ LogSizeViewErr => out'.err # NoErr
        /\ \A leafID \in LeafIDs : GetViewErr(leafID) => out'.err # NoErr ]_vars

(***************************************************************************)
(* Damaged files.  NewStorage only looks at which buckets exist, so it     *)
(* opens a file that has both buckets whatever their content.              *)
(***************************************************************************)
\* The value of a record cut short by one byte, and with one byte too many.
ShortValue == SubSeq(vtob(1, 7), 1, 15)
LongValue == vtob(1, 7) \o <<0>>

\* Files with both buckets and a content NewStorage and Add never write: the
\* size key is absent, or a leafID holds a value that is not 16 bytes long.
DamagedStores ==
    { [n \in {dedupBucket, sizeBucket} |->
          IF n = dedupBucket THEN BucketPut(EmptyBucket, "a", vtob(0, 7))
                             ELSE EmptyBucket],
      [n \in {dedupBucket, sizeBucket} |->
          IF n = dedupBucket THEN BucketPut(EmptyBucket, "b", LongValue)
                             ELSE EmptyBucket],
      [n \in {dedupBucket, sizeBucket} |->
          IF n = dedupBucket THEN BucketPut(EmptyBucket, "a", ShortValue)
                             ELSE BucketPut(EmptyBucket, sizeKey, itob(0))] }

InitDamaged ==
    /\ store \in DamagedStores
    /\ handle = "Unopened"
    /\ pc = [p \in Callers |-> "idle"]
    /\ left = [p \in Callers |-> 0]
    /\ out = NoRet
    /\ created = FALSE
    /\ least = [l \in LeafIDs |-> NoRec]
    /\ added = {}
    /\ hist = << >>
    /\ inOrder = 0
    /\ ldis = [p \in Callers |-> << >>]
    /\ given = [p \in Callers |-> << >>]
    /\ serial = NoBuckets
    /\ sync = [pc |-> "off", next |-> 0]
    /\ codec = [pc |-> "off"]

SpecDamaged == InitDamaged /\ [][Next]_vars

NoSizeKey(d) == BothBuckets(d) /\ BucketGet(d[sizeBucket], sizeKey) = Nil

\* C13: while the size key is absent from the size bucket of an opened
\* store, LogSize returns an error and no size, every record an Add call
\* applies ends the call with an error naming the record, and no step
\* changes the dedup bucket or the size bucket.
C13_MissingSizeIsAnError ==
    [][ (handle = "Ready" /\ NoSizeKey(store)) =>
          /\ store' = store
          /\ out'.op = "LogSize" =>
                out'.err = ErrNoSize /\ out' # Ret("LogSize", "", 0, 0, FALSE, 0, NoErr)
          /\ \A p \in Callers :
                (pc[p] = "adding" /\ handle' = "Ready"
                    /\ <<pc'[p], left'[p]>> # <<pc[p], left[p]>>) =>
                   /\ pc'[p] = "idle"
                   /\ out'.op = "Add" /\ out'.err = ErrAdd
                   /\ \E ldi \in LeafDedupInfos :
                         out'.Idx = ldi.Idx /\ AddUpdate(p, ldi, FALSE) ]_vars

C13_Witness ==
    /\ handle = "Ready" /\ NoSizeKey(store)
    /\ out.op = "Add" /\ out.err = ErrAdd /\ out.Idx = 0
    /\ store[dedupBucket] = BucketPut(EmptyBucket, "a", vtob(0, 7))

\* C14: a Get of a leafID whose stored value is present and not 16 bytes
\* long returns the decode error with found = false and an empty record,
\* which is not what it returns for an absent leafID.
C14_WrongLengthIsDecodeError ==
    (handle = "Ready" /\ out.op = "Get") =>
        LET v == BucketGet(store[dedupBucket], out.leafID)
        IN  (v # Nil /\ Len(v) # 16) =>
               /\ out = Ret("Get", out.leafID, 0, 0, FALSE, 0, ErrDecode)
               /\ out # GetResult([store EXCEPT ![dedupBucket] = EmptyBucket],
                                  out.leafID)

C14_Witness ==
    /\ handle = "Ready" /\ out.op = "Get" /\ out.leafID = "a"
    /\ BucketGet(store[dedupBucket], "a") = ShortValue
    /\ out.err = ErrDecode

(***************************************************************************)
(* Add calls with their batch given.  The caller "sync" makes one Add call *)
(* with up to MaxLdis records, the caller "server" one with one record;    *)
(* the transactions of the two calls interleave in every way.              *)
(***************************************************************************)
MaxLdis == 3

\* The records handed to Add in SpecBatch: one per index, the even indices
\* for one leafID and the odd ones for the other.
BatchLdis ==
    {ldi \in LeafDedupInfos :
        /\ ldi.Timestamp = 0
        /\ ldi.LeafID = (IF ldi.Idx % 2 = 0 THEN "a" ELSE "b")}

Batches(p) ==
    IF p = "sync"
    THEN UNION {[1..n -> BatchLdis] : n \in 0..MaxLdis}
    ELSE [1..1 -> BatchLdis]

\* Mutant of NextRecord: the records are taken from the end of the slice.
NextRecord_last(rest) == rest[Len(rest)]

\* for _, ldi := range ldis: the record of the next iteration.
NextRecord(rest) == Head(rest)

\* Mutant of OnError: the failed record is skipped and the loop goes on.
OnError_continue(rest) ==
    [pc |-> IF Len(rest) > 1 THEN "batch" ELSE "idle", rest |-> Tail(rest)]

\* if err != nil { return ... }: the call is over, the records from the
\* failed one on are left.
OnError(rest) == [pc |-> "idle", rest |-> rest]

\* The file a newly created store holds.
FreshStore == NewStorageFn(NoBuckets).db

InitBatch ==
    /\ store = FreshStore
    /\ handle = "Ready"
    /\ pc = [p \in Callers |-> "idle"]
    /\ left = [p \in Callers |-> 0]
    /\ out = NoRet
    /\ created = TRUE
    /\ least = [l \in LeafIDs |-> NoRec]
    /\ added = {}
    /\ hist = << >>
    /\ inOrder = 0
    /\ ldis = [p \in Callers |-> << >>]
    /\ given = [p \in Callers |-> << >>]
    /\ serial = FreshStore
    /\ sync = [pc |-> "off", next |-> 0]
    /\ codec = [pc |-> "off"]

\* Add(ctx, batch) is called by p, for the first time.
AddBatch(p, batch) ==
    /\ handle = "Ready"
    /\ pc[p] = "idle"
    /\ given[p] = << >>
    /\ IF batch = << >>
       THEN /\ out' = Ret("Add", "", 0, 0, FALSE, 0, NoErr)
            /\ UNCHANGED <<pc, left, ldis, given>>
       ELSE /\ out' = NoRet
            /\ pc' = [pc EXCEPT ![p] = "batch"]
            /\ left' = [left EXCEPT ![p] = Len(batch)]
            /\ ldis' = [ldis EXCEPT ![p] = batch]
            /\ given' = [given EXCEPT ![p] = batch]
    /\ UNCHANGED <<store, handle, created, least, added, hist, inOrder>>
    /\ UNCHANGED <<serial, sync, codec>>

\* The position in given[p] of the first record of p's call not committed.
Position(p) == Len(given[p]) - Len(ldis[p]) + 1

\* One iteration of the loop of p's Add call, on the next record of its batch.
\* fault: the transaction fails in the store (Put or commit) and is rolled back.
BatchUpdate(p, fault) ==
    /\ handle = "Ready"
    /\ pc[p] = "batch"
    /\ LET ldi == NextRecord(ldis[p])
           r == AddFn(store, ldi)
       IN  IF fault \/ r.err # NoErr
           THEN /\ out' = Ret("Add", "", ldi.Idx, 0, FALSE, 0, ErrAdd)
                /\ pc' = [pc EXCEPT ![p] = OnError(ldis[p]).pc]
                /\ ldis' = [ldis EXCEPT ![p] = OnError(ldis[p]).rest]
                /\ left' = [left EXCEPT ![p] = 0]
                /\ UNCHANGED <<store, serial, least, added, hist, inOrder>>
           ELSE /\ store' = r.db
                /\ serial' = AddFn(serial, given[p][Position(p)]).db
                /\ least' =
                     [least EXCEPT ![ldi.LeafID] =
                         IF @ = NoRec \/ ldi.Idx < @.Idx
                         THEN [Idx |-> ldi.Idx, Timestamp |-> ldi.Timestamp]
                         ELSE @]
                /\ added' = added \cup {ldi.Idx}
                /\ hist' = IF hist # Overflow /\ Len(hist) < 3
                           THEN Append(hist, ldi.Idx)
                           ELSE Overflow
                /\ inOrder' = IF ldi.Idx = inOrder THEN inOrder + 1 ELSE OutOfOrder
                /\ ldis' = [ldis EXCEPT ![p] = Tail(@)]
                /\ left' = [left EXCEPT ![p] = @ - 1]
                /\ IF Len(ldis[p]) = 1
                   THEN /\ pc' = [pc EXCEPT ![p] = "idle"]
                        /\ out' = Ret("Add", "", 0, 0, FALSE, 0, NoErr)
                   ELSE /\ out' = NoRet
                        /\ UNCHANGED pc
    /\ UNCHANGED <<handle, created, given, sync, codec>>

NextBatch ==
    \/ \E p \in Callers : \E batch \in Batches(p) : AddBatch(p, batch)
    \/ \E p \in Callers, fault \in BOOLEAN : BatchUpdate(p, fault)

SpecBatch == InitBatch /\ [][NextBatch]_vars

\* n successive single-record Add calls, in the order of the sequence.
RECURSIVE ApplyAll(_, _)
ApplyAll(d, records) ==
    IF records = << >> THEN d
    ELSE ApplyAll(AddFn(d, Head(records)).db, Tail(records))

\* C11: when the transaction of the k-th record of an Add batch fails, Add
\* returns the error that carries that record's index, the file is left as
\* it was with records 1..k-1 committed, and the call is over with records
\* k.. left: none of them is applied later.
C11_FailFast ==
    [][ \A p \in Callers :
          /\ (pc[p] = "batch" /\ BatchUpdate(p, TRUE)) =>
                LET k == Position(p)
                IN  /\ out' = Ret("Add", "", given[p][k].Idx, 0, FALSE, 0, ErrAdd)
                    /\ store' = store
                    /\ \A i \in 1..(k - 1) :
                          LET g == GetResult(store', given[p][i].LeafID)
                          IN  g.found /\ g.Idx <= given[p][i].Idx
                    /\ pc'[p] = "idle"
                    /\ ldis'[p] = SubSeq(given[p], k, Len(given[p]))
          /\ (pc[p] = "idle" /\ ldis[p] # << >>) =>
                pc'[p] = "idle" /\ ldis'[p] = ldis[p] ]_vars

C11_Witness ==
    /\ out = Ret("Add", "", 1, 0, FALSE, 0, ErrAdd)
    /\ pc["sync"] = "idle"
    /\ Len(given["sync"]) = 3 /\ Len(ldis["sync"]) = 2
    /\ given["sync"][1].Idx = 0 /\ given["sync"][2].Idx = 1
    /\ given["server"] = << >>
    /\ SizeOf(store) = 1
    /\ GetResult(store, "a").found /\ ~GetResult(store, "b").found

\* C16: every committed transaction of an Add call applies the first record
\* of the batch not yet applied, to the file as it is at that transaction:
\* the size advances exactly when the record's Idx is the size then.  The
\* file is always the one that single-record Add calls, one per committed
\* record in commit order, leave; a call that ran alone leaves the file of
\* n successive single-record Add calls in the order given.
C16_BatchAppliedInOrder ==
    [][ /\ store' = serial'
        /\ \A p \in Callers :
             (pc[p] = "batch" /\ ldis'[p] # ldis[p]) =>
                LET k == Position(p)
                    ldi == given[p][k]
                IN  /\ ldis'[p] = SubSeq(given[p], k + 1, Len(given[p]))
                    /\ store' = AddFn(store, ldi).db
                    /\ SizeOf(store') = IF ldi.Idx = SizeOf(store)
                                        THEN SizeOf(store) + 1
                                        ELSE SizeOf(store)
                    /\ (/\ pc'[p] = "idle"
                        /\ \A q \in Callers \ {p} : given[q] = << >>) =>
                          store' = ApplyAll(FreshStore, given[p]) ]_vars

C16_Witness ==
    /\ pc = [p \in Callers |-> "idle"]
    /\ out = Ret("Add", "", 0, 0, FALSE, 0, NoErr)
    /\ Len(given["sync"]) = 2 /\ ldis["sync"] = << >>
    /\ given["sync"][1].Idx = 0 /\ given["sync"][2].Idx = 2
    /\ Len(given["server"]) = 1 /\ given["server"][1].Idx = 1
    /\ hist = <<0, 1, 2>>
    /\ SizeOf(store) = 3

(***************************************************************************)
(* The synchroniser: it reads LogSize, then adds the entries of the        *)
(* authoritative log from that index on, one record per index, while the   *)
(* caller "server" makes Add calls of its own.                             *)
(***************************************************************************)
\* The number of entries of the authoritative log that the synchroniser
\* brings in: it adds the indices below LogEnd.
LogEnd == MaxIdx

InitSync ==
    /\ store = FreshStore
    /\ handle = "Ready"
    /\ pc = [p \in Callers |-> "idle"]
    /\ left = [p \in Callers |-> 0]
    /\ out = NoRet
    /\ created = TRUE
    /\ least = [l \in LeafIDs |-> NoRec]
    /\ added = {}
    /\ hist = << >>
    /\ inOrder = 0
    /\ ldis = [p \in Callers |-> << >>]
    /\ given = [p \in Callers |-> << >>]
    /\ serial = NoBuckets
    /\ sync = [pc |-> "off", next |-> 0]
    /\ codec = [pc |-> "off"]

\* The synchroniser calls LogSize() and takes the size as the first index
\* to add; after an error it stays where it is.
SyncLogSize ==
    /\ handle = "Ready"
    /\ sync.pc = "off"
    /\ LET r == LogSizeResult(store)
       IN  /\ out' = r
           /\ sync' = IF r.err # NoErr THEN sync
                      ELSE [pc |-> IF r.size < LogEnd THEN "adding" ELSE "done",
                            next |-> r.size]
    /\ UNCHANGED <<store, handle, pc, left, created, least, added, hist, inOrder>>
    /\ UNCHANGED <<ldis, given, serial, codec>>

\* The synchroniser calls Add with the record of its next index, whose
\* leafID and timestamp are the authoritative log's.  When Add fails it
\* starts over from LogSize.
SyncAdd(leafID, timestamp, fault) ==
    /\ handle = "Ready"
    /\ sync.pc = "adding"
    /\ LET ldi == [LeafID |-> leafID, Idx |-> sync.next, Timestamp |-> timestamp]
           r == AddFn(store, ldi)
       IN  IF fault \/ r.err # NoErr
           THEN /\ out' = Ret("Add", "", ldi.Idx, 0, FALSE, 0, ErrAdd)
                /\ sync' = [sync EXCEPT !.pc = "off"]
                /\ UNCHANGED <<store, least, added, hist, inOrder>>
           ELSE /\ out' = Ret("Add", "", 0, 0, FALSE, 0, NoErr)
                /\ store' = r.db
                /\ least' =
                     [least EXCEPT ![ldi.LeafID] =
                         IF @ = NoRec \/ ldi.Idx < @.Idx
                         THEN [Idx |-> ldi.Idx, Timestamp |-> ldi.Timestamp]
                         ELSE @]
                /\ added' = added \cup {ldi.Idx}
                /\ hist' = IF hist # Overflow /\ Len(hist) < 3
                           THEN Append(hist, ldi.Idx)
                           ELSE Overflow
                /\ inOrder' = IF ldi.Idx = inOrder THEN inOrder + 1 ELSE OutOfOrder
                /\ sync' = [pc |-> IF sync.next + 1 < LogEnd THEN "adding" ELSE "done",
                            next |-> sync.next + 1]
    /\ UNCHANGED <<handle, pc, left, created>>
    /\ UNCHANGED <<ldis, given, serial, codec>>

NextSync ==
    \/ SyncLogSize
    \/ \E leafID \in LeafIDs, timestamp \in Timestamps, fault \in BOOLEAN :
          SyncAdd(leafID, timestamp, fault)
    \/ \E n \in 0..MaxBatch : Add("server", n)
    \/ \E ldi \in LeafDedupInfos, fault \in BOOLEAN : AddUpdate("server", ldi, fault)

SpecSync == InitSync /\ [][NextSync]_vars

\* C19: from the moment the synchroniser has read LogSize, its next index
\* is never greater than the size counter and every index below it has been
\* added; once it has added its last record, LogSize returns at least
\* LogEnd.  This holds whatever the other caller adds in between.
C19_SyncLeavesNoGap ==
    sync.pc \in {"adding", "done"} =>
        /\ sync.next <= SizeOf(store)
        /\ \A i \in 0..(sync.next - 1) : i \in added
        /\ sync.pc = "done" =>
              /\ LogSizeResult(store).err = NoErr
              /\ LogSizeResult(store).size >= LogEnd

C19_Witness ==
    /\ sync = [pc |-> "done", next |-> LogEnd]
    /\ hist = <<0, 2, 1>>
    /\ pc["server"] = "idle"
    /\ SizeOf(store) = 2

(***************************************************************************)
(* The value codec at full width.  A uint64 is four 16-bit limbs, the most *)
(* significant first, so that every value up to 2^64 - 1 can be written.   *)
(***************************************************************************)
\* The uint64 of a number below 2^31.
ToUint64(n) == <<0, 0, n \div 65536, n % 65536>>

\* Mutant of AppendUint64W: the bytes are written least significant first.
AppendUint64W_littleEndian(v) ==
    <<v[4] % 256, v[4] \div 256, v[3] % 256, v[3] \div 256,
      v[2] % 256, v[2] \div 256, v[1] % 256, v[1] \div 256>>

\* binary.Append(b, binary.BigEndian, v) for a uint64 v: byte(v >> 56),
\* byte(v >> 48), ..., byte(v).
AppendUint64W(v) ==
    <<v[1] \div 256, v[1] % 256, v[2] \div 256, v[2] % 256,
      v[3] \div 256, v[3] % 256, v[4] \div 256, v[4] % 256>>

\* binary.Decode(b, binary.BigEndian, &v) for a uint64 v:
\* b[0] << 56 | b[1] << 48 | ... | b[7].
Uint64W(b) ==
    <<b[1] * 256 + b[2], b[3] * 256 + b[4], b[5] * 256 + b[6], b[7] * 256 + b[8]>>

\* vtob at full width.
vtobW(idx, timestamp) == AppendUint64W(idx) \o AppendUint64W(timestamp)

\* btov at full width.
btovW(b) ==
    IF Len(b) # 16
    THEN [idx |-> ToUint64(0), timestamp |-> ToUint64(0), err |-> ErrDecode]
    ELSE [idx |-> Uint64W(SubSeq(b, 1, 8)),
          timestamp |-> Uint64W(SubSeq(b, 9, 16)),
          err |-> NoErr]

\* The values the codec is applied to: 0, 1, 7, 2^31 - 1, 2^32, 2^63,
\* 0x0102030405060708, 2^64 - 2 and 2^64 - 1.
Uint64s ==
    { <<0, 0, 0, 0>>, <<0, 0, 0, 1>>, <<0, 0, 0, 7>>, <<0, 0, 32767, 65535>>,
      <<0, 1, 0, 0>>, <<32768, 0, 0, 0>>, <<258, 772, 1286, 1800>>,
      <<65535, 65535, 65535, 65534>>, <<65535, 65535, 65535, 65535>> }

InitCodec ==
    /\ store = NoBuckets
    /\ handle = "Unopened"
    /\ pc = [p \in Callers |-> "idle"]
    /\ left = [p \in Callers |-> 0]
    /\ out = NoRet
    /\ created = FALSE
    /\ least = [l \in LeafIDs |-> NoRec]
    /\ added = {}
    /\ hist = << >>
    /\ inOrder = 0
    /\ ldis = [p \in Callers |-> << >>]
    /\ given = [p \in Callers |-> << >>]
    /\ serial = NoBuckets
    /\ sync = [pc |-> "off", next |-> 0]
    /\ \E idx \in Uint64s, timestamp \in Uint64s :
          codec = [pc |-> "input", idx |-> idx, timestamp |-> timestamp]

\* vtob(idx, timestamp) is called.
Encode ==
    /\ codec.pc = "input"
    /\ codec' = [pc |-> "encoded", idx |-> codec.idx, timestamp |-> codec.timestamp,
                 b |-> vtobW(codec.idx, codec.timestamp)]
    /\ UNCHANGED <<store, handle, pc, left, out, created, least, added, hist, inOrder>>
    /\ UNCHANGED <<ldis, given, serial, sync>>

\* btov is called with the bytes vtob returned.
Decode ==
    /\ codec.pc = "encoded"
    /\ codec' = [pc |-> "decoded", idx |-> codec.idx, timestamp |-> codec.timestamp,
                 b |-> codec.b, v |-> btovW(codec.b)]
    /\ UNCHANGED <<store, handle, pc, left, out, created, least, added, hist, inOrder>>
    /\ UNCHANGED <<ldis, given, serial, sync>>

NextCodec == Encode \/ Decode

SpecCodec == InitCodec /\ [][NextCodec]_vars

\* A uint64 below 2^31, as a number.
IsSmall(v) == v[1] = 0 /\ v[2] = 0 /\ v[3] < 32768
ToNumber(v) == v[3] * 65536 + v[4]

\* The eight bytes hold the value, most significant byte first.
IsBigEndianOf(b, v) ==
    /\ Len(b) = 8
    /\ \A i \in 1..8 : b[i] \in 0..255
    /\ \A j \in 1..4 : b[2 * j - 1] * 256 + b[2 * j] = v[j]

\* C20: vtob returns exactly 16 bytes, the big-endian index followed by the
\* big-endian timestamp, and btov of these bytes returns the index and the
\* timestamp with no error, for values from 0 to 2^64 - 1.  On the values
\* below 2^31 the codec in numbers (vtob, btov) gives the same bytes and
\* the same values.
C20_CodecRoundTrips ==
    /\ codec.pc \in {"encoded", "decoded"} =>
          /\ Len(codec.b) = 16
          /\ IsBigEndianOf(SubSeq(codec.b, 1, 8), codec.idx)
          /\ IsBigEndianOf(SubSeq(codec.b, 9, 16), codec.timestamp)
          /\ codec.idx = <<258, 772, 1286, 1800>> =>
                SubSeq(codec.b, 1, 8) = <<1, 2, 3, 4, 5, 6, 7, 8>>
          /\ (IsSmall(codec.idx) /\ IsSmall(codec.timestamp)) =>
                /\ vtob(ToNumber(codec.idx), ToNumber(codec.timestamp)) = codec.b
                /\ btov(codec.b) = [idx |-> ToNumber(codec.idx),
                                    timestamp |-> ToNumber(codec.timestamp),
                                    err |-> NoErr]
    /\ codec.pc = "decoded" =>
          codec.v = [idx |-> codec.idx, timestamp |-> codec.timestamp, err |-> NoErr]

C20_Witness ==
    /\ codec.pc = "decoded"
    /\ codec.idx = <<65535, 65535, 65535, 65535>>
    /\ codec.timestamp = <<0, 0, 0, 0>>
    /\ codec.b = [i \in 1..16 |-> IF i <= 8 THEN 255 ELSE 0]
    /\ codec.v.err = NoErr

====
